---- MODULE Spec2Model ----
(***************************************************************************)
(* Human-in-the-loop tool-call reconciliation: processToolCalls of         *)
(* src/src/utils.ts, the executions map of src/src/tools.ts and            *)
(* Chat.onChatMessage, which runs a pass over this.messages and then       *)
(* streams the model's answer to the transcript the pass returned.         *)
(*                                                                         *)
(* JavaScript runs one job to completion: the synchronous prefix of        *)
(* processToolCalls (everything up to `await Promise.all`, including the   *)
(* synchronous prefix of every map callback) is one step; the continuation *)
(* of a callback after its `await toolInstance(...)` is one step; the      *)
(* continuation after `await Promise.all(...)` is one step.                *)
(*                                                                         *)
(* The library calls convertToCoreMessages, formatDataStreamPart and       *)
(* dataStream.write are taken by their signatures: they return.  A         *)
(* resolver is taken by its type, (args, context) => Promise<unknown>: it  *)
(* raises by rejecting its promise, never synchronously.  Tool call ids    *)
(* are unique within a message.                                            *)
(***************************************************************************)
EXTENDS Naturals, Sequences, FiniteSets, TLC

\* ---------------------------------------------------------------- bounds
MaxParts == 2
MaxEarlier == 1
MaxPasses == 2

\* ------------------------------------------------------------- constants
\* the decision sentinels of ./shared (imported at utils.ts:11)
APPROVAL == [YES |-> "APPROVAL_YES", NO |-> "APPROVAL_NO"]

\* JavaScript's undefined
Undefined == "undefined"

\* a result that is a genuine application answer, not a sentinel
Answer == "72F and sunny"

DeniedMessage == "Error: User denied access to tool execution"
NoExecuteMessage == "Error: No execute function found on tool"

\* the tool names that parts carry: a confirmation-required tool, an
\* auto-executing tool, a name that is registered nowhere, and a name that
\* is registered nowhere but is a property of Object.prototype
ToolNames == {"getWeatherInformation", "getLocalTime", "unknownTool", "constructor"}

\* the registry: TRUE when the descriptor has an execute function
tools == [getWeatherInformation |-> FALSE, getLocalTime |-> TRUE]

\* function values
WeatherFn == "executions.getWeatherInformation"
CallerFn == "caller-supplied async function"
ObjectFn == "Object"

\* what every object literal inherits: `key in obj` and obj[key] see it
ObjectPrototype == [constructor |-> ObjectFn]

\* the executions map of tools.ts
RepoExecutions == [getWeatherInformation |-> WeatherFn]

\* another map a caller may pass: resolvers that may raise, an entry for an
\* auto-executing tool, and a listed name whose value is absent
CallerExecutions ==
  [getWeatherInformation |-> CallerFn, getLocalTime |-> CallerFn, unknownTool |-> Undefined]

ExecutionsChoices == {RepoExecutions, CallerExecutions}

\* what a raising resolver raises
Errors == {"Error: upstream timeout"}

\* ------------------------------------------------------------ the inputs
Cities == <<"Lima", "Oslo", "Rome", "Kyiv", "Bonn", "Graz">>

NoToolInvocation ==
  [toolName |-> "", toolCallId |-> 0, args |-> "", state |-> "", result |-> Undefined]

TextPart == [type |-> "text", toolInvocation |-> NoToolInvocation]

\* the i-th part's tool invocation: its id and args are its own
ToolPart(i, name, state, result) ==
  [type |-> "tool-invocation",
   toolInvocation |-> [toolName |-> name, toolCallId |-> i, args |-> Cities[i],
                       state |-> state, result |-> result]]

Shapes ==
  {<<"text", "", "", "">>}
    \cup {<<"tool-invocation", n, "call", Undefined>> : n \in ToolNames}
    \cup {<<"tool-invocation", n, "result", r>> :
            n \in ToolNames, r \in {APPROVAL.YES, APPROVAL.NO, Answer}}

PartOf(i, s) == IF s[1] = "text" THEN TextPart ELSE ToolPart(i, s[2], s[3], s[4])

PartsChoices ==
  UNION {{[i \in 1..n |-> PartOf(i, sh[i])] : sh \in [1..n -> Shapes]} : n \in 0..MaxParts}

\* an earlier assistant turn that still carries an approved invocation (with
\* an id and args no part of the last message has), and
\* an earlier user turn
EarlierMessages ==
  <<[id |-> "m1", role |-> "assistant", content |-> "", createdAt |-> "09:01",
     hasParts |-> TRUE,
     parts |-> <<ToolPart(Len(Cities), "getWeatherInformation", "result", APPROVAL.YES)>>],
    [id |-> "m2", role |-> "user", content |-> "what's the weather in Lima?",
     createdAt |-> "09:02", hasParts |-> FALSE, parts |-> <<>>],
    [id |-> "m3", role |-> "user", content |-> "and in Oslo?", createdAt |-> "09:03",
     hasParts |-> FALSE, parts |-> <<>>]>>

LastMessageChoices ==
  {[id |-> "m9", role |-> "assistant", content |-> "", createdAt |-> "09:09",
     hasParts |-> TRUE, parts |-> p] : p \in PartsChoices}
    \cup {[id |-> "m9", role |-> "user", content |-> "hello", createdAt |-> "09:09",
           hasParts |-> FALSE, parts |-> <<>>]}

TranscriptChoices ==
  {<<>>} \cup {SubSeq(EarlierMessages, 1, k) \o <<m>> :
                 k \in 0..MaxEarlier, m \in LastMessageChoices}

\* ----------------------------------------------------------------- state
VARIABLES
  messages,           \* the transcript handed to processToolCalls
  executions,         \* the executions map handed to processToolCalls
  pc,                 \* "idle" | "awaiting" | "returned" | "rejected" of the pass, then
                      \* "streaming" | "merged" of onChatMessage
  promises,           \* per part of the last message: the promise of its map callback
  invocations,        \* the resolver calls made, in the order they were made
  dataStream,         \* what dataStream.write received, in order
  settled,            \* the part indices in the order their callbacks completed
  completions,        \* per part: how its resolver call completed, if it did
  processedMessages,  \* what processToolCalls returned
  modelMessages,      \* the messages streamText was called with
  priorCalls,         \* the toolCallIds whose resolver was called in earlier passes
  resubmitted,        \* whether messages is a transcript that a pass returned
  input,              \* the value of messages when the pass was called
  pass                \* how many passes were started

vars ==
  <<messages, executions, pc, promises, invocations, dataStream, settled,
    completions, processedMessages, modelMessages, priorCalls, resubmitted,
    input, pass>>

\* ------------------------------------------------------- pure operations
\* JavaScript's `key in obj`: own keys and inherited ones
In(key, obj) == key \in DOMAIN obj \/ key \in DOMAIN ObjectPrototype

\* JavaScript's obj[key]
Get(obj, key) ==
  IF key \in DOMAIN obj THEN obj[key]
  ELSE IF key \in DOMAIN ObjectPrototype THEN ObjectPrototype[key]
  ELSE Undefined

isValidToolName(key, obj) == In(key, obj)

\* a lossy conversion: a core message keeps the role and the content
convertToCoreMessages(ms) ==
  [i \in DOMAIN ms |-> [role |-> ms[i].role, content |-> ms[i].content]]

formatDataStreamPart(type, value) ==
  [type |-> type, toolCallId |-> value.toolCallId, result |-> value.result]

\* Branch that takes every result other than APPROVAL.YES for a denial
Branch_ElseDenies(part, ex) ==
  LET toolInvocation == part.toolInvocation
      toolName == toolInvocation.toolName
  IN  IF part.type # "tool-invocation" THEN "pass"
      ELSE IF ~In(toolName, ex) \/ toolInvocation.state # "result" THEN "pass"
      ELSE IF toolInvocation.result = APPROVAL.YES
        THEN IF Get(ex, toolName) # Undefined THEN "invoke" ELSE "noexec"
      ELSE "deny"

\* Branch that passes the part through when executions[toolName] is absent
Branch_NoExecPasses(part, ex) ==
  LET toolInvocation == part.toolInvocation
      toolName == toolInvocation.toolName
  IN  IF part.type # "tool-invocation" THEN "pass"
      ELSE IF ~In(toolName, ex) \/ toolInvocation.state # "result" THEN "pass"
      ELSE IF toolInvocation.result = APPROVAL.YES
        THEN IF Get(ex, toolName) # Undefined THEN "invoke" ELSE "pass"
      ELSE IF toolInvocation.result = APPROVAL.NO THEN "deny"
      ELSE "pass"

\* Branch with `if (toolInvocation.result)` in place of the comparison with
\* APPROVAL.YES
Branch_TruthyResult(part, ex) ==
  LET toolInvocation == part.toolInvocation
      toolName == toolInvocation.toolName
  IN  IF part.type # "tool-invocation" THEN "pass"
      ELSE IF ~In(toolName, ex) \/ toolInvocation.state # "result" THEN "pass"
      ELSE IF toolInvocation.result # Undefined
        THEN IF Get(ex, toolName) # Undefined THEN "invoke" ELSE "noexec"
      ELSE "pass"

\* the path a map callback takes up to its first await or its return:
\*   "pass"    return part                      (lines 203, 222, 238, 279)
\*   "invoke"  call the resolver and await it   (line 248)
\*   "noexec"  result = NoExecuteMessage        (line 267)
\*   "deny"    result = DeniedMessage           (line 273)
Branch(part, ex) ==
  LET toolInvocation == part.toolInvocation
      toolName == toolInvocation.toolName
  IN  IF part.type # "tool-invocation" THEN "pass"
      ELSE IF ~In(toolName, ex) \/ toolInvocation.state # "result" THEN "pass"
      ELSE IF toolInvocation.result = APPROVAL.YES
        THEN IF ~isValidToolName(toolName, ex) \/ toolInvocation.state # "result"
               THEN "pass"
               ELSE IF Get(ex, toolName) # Undefined THEN "invoke" ELSE "noexec"
      ELSE IF toolInvocation.result = APPROVAL.NO THEN "deny"
      ELSE "pass"

\* the result a callback that does not await assigns
SyncResult(part, ex) ==
  IF Branch(part, ex) = "deny" THEN DeniedMessage ELSE NoExecuteMessage

\* WithResult that spreads the part but builds toolInvocation without its args
WithResult_ClearsArgs(part, result) ==
  [part EXCEPT !.toolInvocation.result = result, !.toolInvocation.args = Undefined]

\* WithResult that returns the part it was given
WithResult_KeepsPart(part, result) == part

\* { ...part, toolInvocation: { ...toolInvocation, result } }
WithResult(part, result) == [part EXCEPT !.toolInvocation.result = result]

\* ToolResultEvent that publishes toolInvocation.result in place of result
ToolResultEvent_StaleResult(part, result) ==
  formatDataStreamPart("tool_result",
    [toolCallId |-> part.toolInvocation.toolCallId,
     result |-> part.toolInvocation.result])

\* the argument of dataStream.write
ToolResultEvent(part, result) ==
  formatDataStreamPart("tool_result",
    [toolCallId |-> part.toolInvocation.toolCallId, result |-> result])

\* Invocation whose context is built from the messages before the last one
Invocation_WithoutLast(part, ex, ms) ==
  [fn |-> Get(ex, part.toolInvocation.toolName),
   args |-> part.toolInvocation.args,
   toolCallId |-> part.toolInvocation.toolCallId,
   messages |-> convertToCoreMessages(SubSeq(ms, 1, Len(ms) - 1))]

\* toolInstance(toolInvocation.args, { messages, toolCallId })
Invocation(part, ex, ms) ==
  [fn |-> Get(ex, part.toolInvocation.toolName),
   args |-> part.toolInvocation.args,
   toolCallId |-> part.toolInvocation.toolCallId,
   messages |-> convertToCoreMessages(ms)]

\* what a function returns when it returns
ReturnValue(fn, args) ==
  IF fn = ObjectFn THEN args
  ELSE IF fn = WeatherFn THEN "The weather in " \o args \o " is sunny"
  ELSE "resolved: " \o args

\* functions whose promise is settled when the call returns
Immediate(fn) == fn \in {WeatherFn, ObjectFn}

\* functions that may raise
MayRaise(fn) == fn = CallerFn

\* TryCatch whose catch block logs the error and assigns nothing
TryCatch_LogOnly(completion) ==
  IF completion.type = "throw"
    THEN [type |-> "normal", value |-> Undefined]
    ELSE completion

\* TryCatch without the try
TryCatch_Rethrow(completion) == completion

\* try { result = await ... } catch (error) { result = `Error executing tool: ${error}` }
TryCatch(completion) ==
  IF completion.type = "throw"
    THEN [type |-> "normal", value |-> "Error executing tool: " \o completion.value]
    ELSE completion

\* the writes of the synchronous prefix, in part order
SyncWrites(ps, ex) ==
  LET F[k \in 0..Len(ps)] ==
        IF k = 0 THEN <<>>
        ELSE IF Branch(ps[k], ex) \in {"deny", "noexec"}
          THEN Append(F[k - 1], ToolResultEvent(ps[k], SyncResult(ps[k], ex)))
          ELSE F[k - 1]
  IN  F[Len(ps)]

\* the resolver calls of the synchronous prefix, in part order
SyncInvocations(ps, ex, ms) ==
  LET F[k \in 0..Len(ps)] ==
        IF k = 0 THEN <<>>
        ELSE IF Branch(ps[k], ex) = "invoke"
          THEN Append(F[k - 1], Invocation(ps[k], ex, ms))
          ELSE F[k - 1]
  IN  F[Len(ps)]

\* the callbacks that completed in the synchronous prefix, in part order
SyncSettled(ps, ex) ==
  LET F[k \in 0..Len(ps)] ==
        IF k = 0 THEN <<>>
        ELSE IF Branch(ps[k], ex) # "invoke" THEN Append(F[k - 1], k) ELSE F[k - 1]
  IN  F[Len(ps)]

\* the promise of each callback when the synchronous prefix ends
SyncPromise(part, ex) ==
  LET b == Branch(part, ex)
  IN  IF b = "pass" THEN [status |-> "fulfilled", value |-> part]
      ELSE IF b = "invoke" THEN [status |-> "pending", value |-> part]
      ELSE [status |-> "fulfilled", value |-> WithResult(part, SyncResult(part, ex))]

\* the values in the order in which the callbacks completed
PromiseAllValues_CompletionOrder(ps) == [i \in DOMAIN ps |-> ps[settled[i]].value]

\* Promise.all: the values at the positions of their promises
PromiseAllValues(ps) == [i \in DOMAIN ps |-> ps[i].value]

\* Rebuild that returns the rewritten last message alone
Rebuild_LastOnly(ms, processedParts) ==
  <<[ms[Len(ms)] EXCEPT !.hasParts = TRUE, !.parts = processedParts]>>

\* [...messages.slice(0, -1), { ...lastMessage, parts: processedParts }]
Rebuild(ms, processedParts) ==
  SubSeq(ms, 1, Len(ms) - 1)
    \o <<[ms[Len(ms)] EXCEPT !.hasParts = TRUE, !.parts = processedParts]>>

NoMessages == <<>>

\* what the model's stream contributes to the data stream
ModelOutput == [type |-> "text", toolCallId |-> 0, result |-> "It is sunny in Lima."]

\* the toolCallIds of a sequence of resolver calls
CalledIds(calls) == {calls[k].toolCallId : k \in DOMAIN calls}

\* a resolver call that has not completed
NoCompletion == [type |-> "none", value |-> ""]

\* --------------------------------------------------------------- actions
Init ==
  /\ messages \in TranscriptChoices
  /\ executions \in ExecutionsChoices
  /\ pc = "idle"
  /\ promises = <<>>
  /\ invocations = <<>>
  /\ dataStream = <<>>
  /\ settled = <<>>
  /\ completions = <<>>
  /\ processedMessages = NoMessages
  /\ modelMessages = NoMessages
  /\ priorCalls = {}
  /\ resubmitted = FALSE
  /\ input = messages
  /\ pass = 1

lastMessage == messages[Len(messages)]
parts == lastMessage.parts

\* messages[messages.length - 1] is undefined: reading .parts of it raises
\* a TypeError, and the promise of processToolCalls rejects
CallEmpty ==
  /\ pc = "idle"
  /\ Len(messages) = 0
  /\ pc' = "rejected"
  /\ UNCHANGED <<messages, executions, promises, invocations, dataStream, settled,
                 completions, processedMessages, modelMessages,
                 priorCalls, resubmitted, input, pass>>

\* CallNoParts with `lastMessage.parts ?? []`: the map runs over no parts
CallNoParts_EmptyParts ==
  /\ pc = "idle"
  /\ Len(messages) > 0
  /\ ~lastMessage.hasParts
  /\ pc' = "returned"
  /\ processedMessages' = Rebuild(messages, <<>>)
  /\ UNCHANGED <<messages, executions, promises, invocations, dataStream, settled,
                 completions, modelMessages,
                 priorCalls, resubmitted, input, pass>>

\* if (!parts) return messages
CallNoParts ==
  /\ pc = "idle"
  /\ Len(messages) > 0
  /\ ~lastMessage.hasParts
  /\ pc' = "returned"
  /\ processedMessages' = messages
  /\ UNCHANGED <<messages, executions, promises, invocations, dataStream, settled,
                 completions, modelMessages,
                 priorCalls, resubmitted, input, pass>>

\* parts.map(async (part) => ...) up to `await Promise.all`
CallMap ==
  /\ pc = "idle"
  /\ Len(messages) > 0
  /\ lastMessage.hasParts
  /\ promises' = [i \in DOMAIN parts |-> SyncPromise(parts[i], executions)]
  /\ invocations' = SyncInvocations(parts, executions, messages)
  /\ dataStream' = SyncWrites(parts, executions)
  /\ settled' = SyncSettled(parts, executions)
  /\ completions' = [i \in DOMAIN parts |-> NoCompletion]
  /\ pc' = "awaiting"
  /\ UNCHANGED <<messages, executions, processedMessages, modelMessages,
                 priorCalls, resubmitted, input, pass>>

\* a callback may resume once no call made before its own is to a function
\* whose promise was settled when it returned: those resume first, in order
MayResume(i) ==
  /\ pc = "awaiting"
  /\ i \in DOMAIN promises
  /\ promises[i].status = "pending"
  /\ \A j \in 1..(i - 1) :
       promises[j].status = "pending" =>
         ~Immediate(Get(executions, parts[j].toolInvocation.toolName))

\* Resume without the dataStream.write
Resume_NoWrite(i, completion) ==
  LET c == TryCatch(completion)
  IN  /\ settled' = Append(settled, i)
      /\ completions' = [completions EXCEPT ![i] = completion]
      /\ dataStream' = dataStream
      /\ promises' =
           [promises EXCEPT
              ![i] = IF c.type = "normal"
                       THEN [status |-> "fulfilled", value |-> WithResult(parts[i], c.value)]
                       ELSE [status |-> "rejected", value |-> parts[i]]]
      /\ UNCHANGED <<messages, executions, pc, invocations, processedMessages, modelMessages,
                 priorCalls, resubmitted, input, pass>>

\* Resume whose event goes ahead of the events already written
Resume_WriteAhead(i, completion) ==
  LET c == TryCatch(completion)
  IN  /\ settled' = Append(settled, i)
      /\ completions' = [completions EXCEPT ![i] = completion]
      /\ dataStream' = <<ToolResultEvent(parts[i], c.value)>> \o dataStream
      /\ promises' =
           [promises EXCEPT
              ![i] = [status |-> "fulfilled", value |-> WithResult(parts[i], c.value)]]
      /\ UNCHANGED <<messages, executions, pc, invocations, processedMessages, modelMessages,
                     priorCalls, resubmitted, input, pass>>

\* the rest of a callback after its await, given how the resolver completed
Resume(i, completion) ==
  LET c == TryCatch(completion)
  IN  /\ settled' = Append(settled, i)
      /\ completions' = [completions EXCEPT ![i] = completion]
      /\ IF c.type = "normal"
           THEN /\ dataStream' = Append(dataStream, ToolResultEvent(parts[i], c.value))
                /\ promises' =
                     [promises EXCEPT
                        ![i] = [status |-> "fulfilled",
                                value |-> WithResult(parts[i], c.value)]]
           ELSE /\ dataStream' = dataStream
                /\ promises' = [promises EXCEPT ![i].status = "rejected"]
      /\ UNCHANGED <<messages, executions, pc, invocations, processedMessages, modelMessages,
                 priorCalls, resubmitted, input, pass>>

\* the resolver of part i returns
ResolverReturns(i) ==
  /\ MayResume(i)
  /\ LET toolInvocation == parts[i].toolInvocation
         fn == Get(executions, toolInvocation.toolName)
     IN  Resume(i, [type |-> "normal", value |-> ReturnValue(fn, toolInvocation.args)])

\* the resolver of part i raises
ResolverRaises(i) ==
  /\ MayResume(i)
  /\ MayRaise(Get(executions, parts[i].toolInvocation.toolName))
  /\ \E error \in Errors : Resume(i, [type |-> "throw", value |-> error])

\* Return with Promise.race in place of Promise.all: the first callback to
\* complete ends the wait
Return_OnFirstSettled ==
  /\ pc = "awaiting"
  /\ \/ promises = <<>>
     \/ \E i \in DOMAIN promises : promises[i].status # "pending"
  /\ pc' = "returned"
  /\ processedMessages' = Rebuild(messages, PromiseAllValues(promises))
  /\ UNCHANGED <<messages, executions, promises, invocations, dataStream, settled,
                 completions, modelMessages, priorCalls, resubmitted, input, pass>>

\* Return that assigns processedParts to lastMessage.parts and returns the
\* array it was given
Return_InPlace ==
  /\ pc = "awaiting"
  /\ \A i \in DOMAIN promises : promises[i].status = "fulfilled"
  /\ pc' = "returned"
  /\ messages' = Rebuild(messages, PromiseAllValues(promises))
  /\ processedMessages' = messages'
  /\ UNCHANGED <<executions, promises, invocations, dataStream, settled,
                 completions, modelMessages, priorCalls, resubmitted, input, pass>>

\* Promise.all settles: it rejects with the first rejection, it fulfils when
\* every callback has; then processToolCalls returns the rebuilt transcript
Return ==
  /\ pc = "awaiting"
  /\ \/ \E i \in DOMAIN promises : promises[i].status = "rejected"
     \/ \A i \in DOMAIN promises : promises[i].status = "fulfilled"
  /\ IF \E i \in DOMAIN promises : promises[i].status = "rejected"
       THEN /\ pc' = "rejected"
            /\ processedMessages' = processedMessages
       ELSE /\ pc' = "returned"
            /\ processedMessages' = Rebuild(messages, PromiseAllValues(promises))
  /\ UNCHANGED <<messages, executions, promises, invocations, dataStream, settled,
                 completions, modelMessages,
                 priorCalls, resubmitted, input, pass>>

\* processToolCalls is called again, with the transcript it returned
Resubmit ==
  /\ pc = "returned"
  /\ pass < MaxPasses
  /\ messages' = processedMessages
  /\ pc' = "idle"
  /\ promises' = <<>>
  /\ invocations' = <<>>
  /\ dataStream' = <<>>
  /\ settled' = <<>>
  /\ completions' = <<>>
  /\ processedMessages' = NoMessages
  /\ modelMessages' = NoMessages
  /\ priorCalls' = priorCalls \cup CalledIds(invocations)
  /\ resubmitted' = TRUE
  /\ input' = processedMessages
  /\ pass' = pass + 1
  /\ UNCHANGED executions

\* StreamText with `messages: this.messages`
StreamText_StoredMessages ==
  /\ pc = "returned"
  /\ modelMessages' = messages
  /\ pc' = "streaming"
  /\ UNCHANGED <<messages, executions, promises, invocations, dataStream, settled,
                 completions, processedMessages, priorCalls, resubmitted, input, pass>>

\* streamText({ ..., messages: processedMessages, ... })
StreamText ==
  /\ pc = "returned"
  /\ modelMessages' = processedMessages
  /\ pc' = "streaming"
  /\ UNCHANGED <<messages, executions, promises, invocations, dataStream, settled,
                 completions, processedMessages, priorCalls, resubmitted, input, pass>>

\* result.mergeIntoDataStream(dataStream): the model's output reaches the stream
MergeIntoDataStream ==
  /\ pc = "streaming"
  /\ dataStream' = Append(dataStream, ModelOutput)
  /\ pc' = "merged"
  /\ UNCHANGED <<messages, executions, promises, invocations, settled, completions,
                 processedMessages, modelMessages, priorCalls, resubmitted, input, pass>>

\* onChatMessage runs once more, on a new data stream, over this.messages,
\* which neither processToolCalls nor onChatMessage has assigned
OnChatMessageAgain ==
  /\ pc = "merged"
  /\ pass < MaxPasses
  /\ pc' = "idle"
  /\ promises' = <<>>
  /\ invocations' = <<>>
  /\ dataStream' = <<>>
  /\ settled' = <<>>
  /\ completions' = <<>>
  /\ processedMessages' = NoMessages
  /\ modelMessages' = NoMessages
  /\ priorCalls' = priorCalls \cup CalledIds(invocations)
  /\ pass' = pass + 1
  /\ UNCHANGED <<messages, executions, resubmitted, input>>

Next ==
  \/ CallEmpty
  \/ CallNoParts
  \/ CallMap
  \/ \E i \in 1..(MaxParts + 1) : ResolverReturns(i)
  \/ \E i \in 1..(MaxParts + 1) : ResolverRaises(i)
  \/ Return
  \/ Resubmit
  \/ StreamText
  \/ MergeIntoDataStream
  \/ OnChatMessageAgain

Spec == Init /\ [][Next]_vars

\* the event loop runs what is ready to run, and every resolver that was
\* called settles
FairSpec ==
  /\ Spec
  /\ WF_vars(CallEmpty)
  /\ WF_vars(CallNoParts)
  /\ WF_vars(CallMap)
  /\ WF_vars(Return)
  /\ \A i \in 1..(MaxParts + 1) : WF_vars(ResolverReturns(i) \/ ResolverRaises(i))

\* ------------------------------------------------- vocabulary of the claims
HasParts == Len(messages) > 0 /\ lastMessage.hasParts

\* the parts of the last message handed in
InParts == IF HasParts THEN parts ELSE <<>>

\* the parts of the last message handed back
OutParts == processedMessages[Len(processedMessages)].parts

Called == pc \in {"awaiting", "returned", "rejected"}

IsTool(i) == InParts[i].type = "tool-invocation"
NameOf(i) == InParts[i].toolInvocation.toolName
IdOf(i) == InParts[i].toolInvocation.toolCallId
ArgsOf(i) == InParts[i].toolInvocation.args

\* part i names a tool in executions, is in 'result' state and holds `token`
Decided(i, token) ==
  /\ IsTool(i)
  /\ In(NameOf(i), executions)
  /\ InParts[i].toolInvocation.state = "result"
  /\ InParts[i].toolInvocation.result = token

\* part i is approved and executions holds a function for its tool name
Approved(i) == Decided(i, APPROVAL.YES) /\ Get(executions, NameOf(i)) # Undefined

Denied(i) == Decided(i, APPROVAL.NO)

\* the resolver calls made for part i, and the events published for it
CallsFor(i) == {k \in DOMAIN invocations : invocations[k].toolCallId = IdOf(i)}
EventsFor(i) == {k \in DOMAIN dataStream : dataStream[k].toolCallId = IdOf(i)}

Raised(i) == completions[i].type = "throw"
Returned(i) == completions[i].type = "normal"

ErrorText(i) == "Error executing tool: " \o completions[i].value

\* ------------------------------------------------------------------ C1
\* C1: once the pass is under way, the resolver of every approved part whose
\* tool name has a function in executions has been invoked exactly once; if
\* that invocation raised, the pass has not raised and the part comes back
\* with the error text as its result, which is not the approve sentinel.
C1_ApprovedRunsOnce ==
  Called =>
    \A i \in DOMAIN InParts :
      Approved(i) =>
        /\ Cardinality(CallsFor(i)) = 1
        /\ Raised(i) =>
             /\ pc # "rejected"
             /\ pc = "returned" =>
                  /\ OutParts[i].toolInvocation.result = ErrorText(i)
                  /\ OutParts[i].toolInvocation.result # APPROVAL.YES

C1_Witness ==
  /\ pc = "returned"
  /\ \E i \in DOMAIN InParts :
       /\ Approved(i)
       /\ Raised(i)
       /\ OutParts[i].toolInvocation.result = "Error executing tool: Error: upstream timeout"

\* ------------------------------------------------------------------ C2
\* C2: for a denied part whose tool name is in executions no resolver is
\* ever invoked, and the part comes back with the fixed denial message.
C2_DenialShortCircuit ==
  Called =>
    \A i \in DOMAIN InParts :
      Denied(i) =>
        /\ CallsFor(i) = {}
        /\ pc = "returned" =>
             OutParts[i].toolInvocation.result =
               "Error: User denied access to tool execution"

C2_Witness ==
  /\ pc = "returned"
  /\ \E i \in DOMAIN InParts :
       /\ Denied(i)
       /\ NameOf(i) \in DOMAIN executions
       /\ executions[NameOf(i)] # Undefined
       /\ OutParts[i].toolInvocation.result = DeniedMessage

\* ------------------------------------------------------------------ C3
\* C3: the last message handed back has as many parts as the one handed in,
\* and its i-th part is the i-th input part, rewritten at most in its
\* result, whatever the order in which the resolvers completed.
C3_OrderPreserved ==
  (pc = "returned" /\ HasParts) =>
    /\ Len(OutParts) = Len(InParts)
    /\ \A i \in DOMAIN InParts :
         [OutParts[i] EXCEPT !.toolInvocation.result = InParts[i].toolInvocation.result]
           = InParts[i]

\* two resolvers completed in the reverse of the part order, one by raising
C3_Witness ==
  /\ pc = "returned"
  /\ Len(InParts) = 2
  /\ settled = <<2, 1>>
  /\ Approved(1) /\ Approved(2)
  /\ Raised(1) \/ Raised(2)
  /\ OutParts[1].toolInvocation.toolCallId = IdOf(1)
  /\ OutParts[2].toolInvocation.toolCallId = IdOf(2)

\* ------------------------------------------------------------------ C4
\* C4: when the resolver of one part has raised, the pass does not raise, and
\* every sibling comes back as without the failure: an approved sibling whose
\* resolver returned holds that resolver's return value, a denied sibling the
\* denial message, each with its one event on the stream, and no sibling
\* whose resolver did not raise holds an error text.
C4_SiblingsUnaffected ==
  (Called /\ \E i \in DOMAIN InParts : Raised(i)) =>
    /\ pc # "rejected"
    /\ pc = "returned" =>
         \A j \in DOMAIN InParts :
           /\ (Approved(j) /\ Returned(j)) =>
                /\ OutParts[j].toolInvocation.result =
                     ReturnValue(Get(executions, NameOf(j)), ArgsOf(j))
                /\ Cardinality(EventsFor(j)) = 1
           /\ Denied(j) =>
                /\ OutParts[j].toolInvocation.result = DeniedMessage
                /\ Cardinality(EventsFor(j)) = 1
           /\ ~Raised(j) =>
                \A e \in Errors :
                  OutParts[j].toolInvocation.result # "Error executing tool: " \o e

C4_Witness ==
  /\ pc = "returned"
  /\ \E i, j \in DOMAIN InParts :
       /\ Raised(i)
       /\ Approved(j) /\ Returned(j)
       /\ settled = <<i, j>>
       /\ OutParts[j].toolInvocation.result = "resolved: " \o ArgsOf(j)
       /\ Cardinality(EventsFor(j)) = 1

\* ------------------------------------------------------------------ C5
\* C5: no pass raises, whatever the transcript (empty ones included) and
\* whatever the resolvers do.
C5_NeverRaises == pc # "rejected"

\* ------------------------------------------------------------------ C6
\* C6: a tool-invocation part whose tool name is an entry of neither tools
\* nor executions has no resolver call and no event, and comes back as it
\* went in, in every state and with every result value.
C6_UnknownToolPassThrough ==
  Called =>
    \A i \in DOMAIN InParts :
      (IsTool(i) /\ NameOf(i) \notin DOMAIN tools /\ NameOf(i) \notin DOMAIN executions) =>
        /\ CallsFor(i) = {}
        /\ EventsFor(i) = {}
        /\ pc = "returned" => OutParts[i] = InParts[i]

\* ------------------------------------------------------------------ C7
\* C7: a pass over a transcript whose last message has no parts collection
\* returns the transcript it was given, calls no resolver and writes nothing
\* to the data stream.
C7_NoPartsPassThrough ==
  (Called /\ Len(messages) > 0 /\ ~lastMessage.hasParts) =>
    /\ pc = "returned"
    /\ processedMessages = messages
    /\ invocations = <<>>
    /\ dataStream = <<>>

C7_Witness ==
  /\ pc = "returned"
  /\ Len(messages) = 2
  /\ ~lastMessage.hasParts
  /\ processedMessages[1] = messages[1]
  /\ processedMessages[2] = messages[2]

\* ------------------------------------------------------------------ C8
\* no part of the last message is in 'result' state with a decision sentinel
NoSentinel ==
  /\ Len(messages) > 0
  /\ \A i \in DOMAIN InParts :
       ~(/\ IsTool(i)
         /\ InParts[i].toolInvocation.state = "result"
         /\ InParts[i].toolInvocation.result \in {APPROVAL.YES, APPROVAL.NO})

\* C8: a pass over a transcript whose last message holds no decided part,
\* and any pass over the transcript a previous pass returned, calls no
\* resolver, writes no event, does not raise and returns a transcript with
\* the content of the one it was given.
C8_IdempotentPass ==
  (Called /\ (NoSentinel \/ resubmitted)) =>
    /\ invocations = <<>>
    /\ dataStream = <<>>
    /\ pc # "rejected"
    /\ pc = "returned" => processedMessages = messages

\* a second pass over a transcript in which the first pass stored a resolver's
\* return value and the denial message
C8_Witness ==
  /\ resubmitted
  /\ pc = "returned"
  /\ Len(InParts) = 2
  /\ InParts[1].toolInvocation.result = "The weather in Lima is sunny"
  /\ InParts[2].toolInvocation.result = DeniedMessage
  /\ processedMessages = messages

\* ------------------------------------------------------------------ C9
\* part i went through the approve or the deny branch
Reconciled(i) == Decided(i, APPROVAL.YES) \/ Decided(i, APPROVAL.NO)

\* C9: when the pass returns, the stream holds one tool_result event for each
\* part that went through the approve or the deny branch, carrying the
\* part's toolCallId and the result stored for it in the returned transcript,
\* and no other event; the other parts come back as they went in.
C9_OneEventPerReconciledPart ==
  (pc = "returned" /\ HasParts) =>
    /\ \A i \in DOMAIN InParts :
         IF Reconciled(i)
           THEN /\ Cardinality(EventsFor(i)) = 1
                /\ \A k \in EventsFor(i) :
                     dataStream[k] =
                       [type |-> "tool_result", toolCallId |-> IdOf(i),
                        result |-> OutParts[i].toolInvocation.result]
           ELSE /\ EventsFor(i) = {}
                /\ OutParts[i] = InParts[i]
    /\ Len(dataStream) = Cardinality({i \in DOMAIN InParts : Reconciled(i)})

C9_Witness ==
  /\ pc = "returned"
  /\ Len(InParts) = 2
  /\ Approved(1) /\ Returned(1)
  /\ ~Reconciled(2) /\ IsTool(2)
  /\ dataStream =
       <<[type |-> "tool_result", toolCallId |-> 1, result |-> "The weather in Lima is sunny"]>>

\* ----------------------------------------------------------------- C10
\* C10: as soon as a part is denied or its resolver has completed, its event
\* is on the stream, also while the resolver of a sibling is still running.
C10_PublishedWhenKnown ==
  Called =>
    \A i \in DOMAIN InParts :
      (Denied(i) \/ (Approved(i) /\ (Returned(i) \/ Raised(i)))) =>
        Cardinality(EventsFor(i)) = 1

\* the event of a part whose resolver has completed is on the stream while the
\* resolver of its sibling has not completed
C10_Witness ==
  /\ pc = "awaiting"
  /\ executions = CallerExecutions
  /\ \E i, j \in DOMAIN InParts :
       /\ Approved(i) /\ Returned(i)
       /\ Approved(j) /\ promises[j].status = "pending"
       /\ EventsFor(i) # {}
       /\ EventsFor(j) = {}

\* ------------------------------------------------------------------ C11
\* C11: the transcript the pass returns is as long as the one it was given,
\* every message before the last is the one at that position of the input,
\* whatever its parts hold, and the last message keeps its id, role, content
\* and createdAt.
C11_FramePreserved ==
  (pc = "returned" /\ Len(messages) > 0) =>
    /\ Len(processedMessages) = Len(messages)
    /\ \A k \in 1..(Len(messages) - 1) : processedMessages[k] = messages[k]
    /\ LET out == processedMessages[Len(processedMessages)]
       IN  /\ out.id = lastMessage.id
           /\ out.role = lastMessage.role
           /\ out.content = lastMessage.content
           /\ out.createdAt = lastMessage.createdAt

\* an earlier message holds an approved part, the last message was rewritten
C11_Witness ==
  /\ pc = "returned"
  /\ Len(messages) = 2
  /\ \E k \in DOMAIN messages[1].parts :
       /\ messages[1].parts[k].type = "tool-invocation"
       /\ messages[1].parts[k].toolInvocation.state = "result"
       /\ messages[1].parts[k].toolInvocation.result = APPROVAL.YES
  /\ processedMessages[1] = messages[1]
  /\ \E i \in DOMAIN InParts : Approved(i) /\ Returned(i)
  /\ processedMessages[2] # messages[2]
  /\ processedMessages[2].createdAt = "09:09"

\* ------------------------------------------------------------------ C12
\* C12: over the passes that onChatMessage runs on the stored conversation,
\* no resolver is called for a toolCallId for which an earlier pass already
\* called one: a later pass finds the outcome in place of the approval.
C12_OnceAcrossPasses ==
  \A k \in DOMAIN invocations : invocations[k].toolCallId \notin priorCalls

\* ------------------------------------------------------------------ C13
\* C13: a tool-invocation part whose tool name is not a key of executions, or
\* whose state is not 'result', has no resolver call and no event, and comes
\* back as it went in, whatever its result field holds.
C13_NotListedOrUndecided ==
  Called =>
    \A i \in DOMAIN InParts :
      (/\ IsTool(i)
       /\ \/ NameOf(i) \notin DOMAIN executions
          \/ InParts[i].toolInvocation.state # "result") =>
        /\ CallsFor(i) = {}
        /\ EventsFor(i) = {}
        /\ pc = "returned" => OutParts[i] = InParts[i]

\* ------------------------------------------------------------------ C14
\* part i is approved, its tool name is a key of executions, and the value
\* stored under that key is absent
ApprovedNoFunction(i) ==
  /\ Decided(i, APPROVAL.YES)
  /\ NameOf(i) \in DOMAIN executions
  /\ executions[NameOf(i)] = Undefined

\* C14 as stated: an approved part whose tool name is listed in executions
\* with no function comes back as it went in, the approve sentinel still its
\* result, and no event is published for it.
C14_NoFunctionPassThrough ==
  Called =>
    \A i \in DOMAIN InParts :
      ApprovedNoFunction(i) =>
        /\ EventsFor(i) = {}
        /\ pc = "returned" =>
             /\ OutParts[i] = InParts[i]
             /\ OutParts[i].toolInvocation.result = APPROVAL.YES

\* C14, amended: for an approved part whose tool name is listed in executions
\* with no function, no resolver is called, one tool_result event carrying
\* "Error: No execute function found on tool" is published, and the part
\* comes back with that text as its result in place of the approve sentinel.
C14_NoFunctionReported ==
  Called =>
    \A i \in DOMAIN InParts :
      ApprovedNoFunction(i) =>
        /\ CallsFor(i) = {}
        /\ Cardinality(EventsFor(i)) = 1
        /\ \A k \in EventsFor(i) :
             /\ dataStream[k].type = "tool_result"
             /\ dataStream[k].result = "Error: No execute function found on tool"
        /\ pc = "returned" =>
             OutParts[i].toolInvocation.result = "Error: No execute function found on tool"

C14_Witness ==
  /\ pc = "returned"
  /\ \E i \in DOMAIN InParts :
       /\ ApprovedNoFunction(i)
       /\ NameOf(i) = "unknownTool"
       /\ OutParts[i].toolInvocation.result = NoExecuteMessage
       /\ EventsFor(i) # {}

\* ------------------------------------------------------------------ C15
\* part i names a tool in executions, is in 'result' state, and its result is
\* neither sentinel
OtherResult(i) ==
  /\ IsTool(i)
  /\ In(NameOf(i), executions)
  /\ InParts[i].toolInvocation.state = "result"
  /\ InParts[i].toolInvocation.result \notin {APPROVAL.YES, APPROVAL.NO}

\* C15: a part of a tool in executions in 'result' state whose result is
\* neither APPROVAL.YES nor APPROVAL.NO has no resolver call and no event,
\* and comes back as it went in.
C15_OtherResultUntouched ==
  Called =>
    \A i \in DOMAIN InParts :
      OtherResult(i) =>
        /\ CallsFor(i) = {}
        /\ EventsFor(i) = {}
        /\ pc = "returned" => OutParts[i] = InParts[i]

\* a getWeatherInformation part that already holds an answer, next to an
\* approved sibling that was rewritten
C15_Witness ==
  /\ pc = "returned"
  /\ Len(InParts) = 2
  /\ OtherResult(1)
  /\ NameOf(1) = "getWeatherInformation"
  /\ tools[NameOf(1)] = FALSE
  /\ OutParts[1].toolInvocation.result = Answer
  /\ Approved(2)
  /\ OutParts[2] # InParts[2]

\* ------------------------------------------------------------------ C16
\* the descriptor of part i's tool in tools has an execute function
AutoExecuting(i) == IsTool(i) /\ NameOf(i) \in DOMAIN tools /\ tools[NameOf(i)]

\* C16: no resolver is called for a part whose tool has an execute function
\* in tools, whatever executions holds under that name and whatever the
\* part's result is.
C16_AutoExecutingNeverResolved ==
  Called => \A i \in DOMAIN InParts : AutoExecuting(i) => CallsFor(i) = {}

\* ------------------------------------------------------------------ C17
\* the context messages of a call are derived from every message of the
\* transcript, the last one included, in order
FromFullTranscript(ctx) ==
  /\ Len(ctx) = Len(messages)
  /\ \A m \in DOMAIN messages :
       ctx[m].role = messages[m].role /\ ctx[m].content = messages[m].content

\* C17: every resolver call is the call of one approved part: the function
\* is the one executions holds for the part's tool name, the first argument
\* is the part's args, the context's toolCallId is the part's toolCallId and
\* the context's messages are derived from the full transcript.
C17_OwnArgsAndContext ==
  Called =>
    \A k \in DOMAIN invocations :
      \E i \in DOMAIN InParts :
        /\ Approved(i)
        /\ CallsFor(i) = {k}
        /\ invocations[k].fn = Get(executions, NameOf(i))
        /\ invocations[k].args = ArgsOf(i)
        /\ invocations[k].toolCallId = IdOf(i)
        /\ FromFullTranscript(invocations[k].messages)
        /\ \A j \in DOMAIN InParts \ {i} :
             IsTool(j) =>
               invocations[k].args # ArgsOf(j) /\ invocations[k].toolCallId # IdOf(j)

\* two approved parts of a two-message transcript, each called with its own
\* city
C17_Witness ==
  /\ pc = "returned"
  /\ Len(messages) = 2
  /\ Len(InParts) = 2
  /\ Approved(1) /\ Approved(2)
  /\ Len(invocations) = 2
  /\ invocations[1].args = Cities[1] /\ invocations[1].toolCallId = 1
  /\ invocations[2].args = Cities[2] /\ invocations[2].toolCallId = 2
  /\ Len(invocations[1].messages) = 2
  /\ invocations[2].messages[2].role = "assistant"

\* ------------------------------------------------------------------ C18
\* part i took the approve or the deny branch up to the rewrite
Rewritten(i) == Branch(InParts[i], executions) \in {"invoke", "noexec", "deny"}

\* C18: in the last message handed back, a part that took the approve or the
\* deny branch has the type, toolName, toolCallId, args and state ('result')
\* of its input part, so that it differs from it in its result at most;
\* every other part is the input part.
C18_OnlyResultRewritten ==
  (pc = "returned" /\ HasParts) =>
    \A i \in DOMAIN InParts :
      IF Rewritten(i)
        THEN /\ OutParts[i].type = "tool-invocation"
             /\ OutParts[i].toolInvocation.toolName = NameOf(i)
             /\ OutParts[i].toolInvocation.toolCallId = IdOf(i)
             /\ OutParts[i].toolInvocation.args = ArgsOf(i)
             /\ OutParts[i].toolInvocation.state = "result"
        ELSE OutParts[i] = InParts[i]

\* an approved part rewritten next to a text part handed back as it was
C18_Witness ==
  /\ pc = "returned"
  /\ Len(InParts) = 2
  /\ InParts[1] = TextPart
  /\ OutParts[1] = TextPart
  /\ Approved(2)
  /\ Returned(2)
  /\ OutParts[2].toolInvocation.args = Cities[2]
  /\ OutParts[2].toolInvocation.result # APPROVAL.YES

\* ------------------------------------------------------------------ C19
\* streamText has been called
ModelStarted == pc \in {"streaming", "merged"}

\* the positions of the model's output in the data stream
ModelEvents == {k \in DOMAIN dataStream : dataStream[k].type # "tool_result"}

\* C19: until the pass has returned, streamText has not been called and the
\* stream holds no model output; once it has been called, no callback of the
\* pass is pending, the tool_result event of every reconciled part is in the
\* stream ahead of any model output, and the model was given the transcript
\* the pass returned, in which no reconciled part holds a decision sentinel.
C19_ModelAfterPass ==
  IF ModelStarted
    THEN /\ modelMessages = processedMessages
         /\ \A i \in DOMAIN promises : promises[i].status = "fulfilled"
         /\ \A i \in DOMAIN InParts :
              Reconciled(i) =>
                /\ EventsFor(i) # {}
                /\ \A k \in EventsFor(i) : \A m \in ModelEvents : k < m
                /\ modelMessages[Len(modelMessages)].parts[i].toolInvocation.result
                     \notin {APPROVAL.YES, APPROVAL.NO}
         /\ pc = "streaming" => ModelEvents = {}
    ELSE /\ modelMessages = NoMessages
         /\ ModelEvents = {}

\* the model's output follows the event of an approved getWeatherInformation
\* part, and the model was given the resolver's answer
C19_Witness ==
  /\ pc = "merged"
  /\ executions = RepoExecutions
  /\ Len(InParts) = 1
  /\ Approved(1)
  /\ Len(dataStream) = 2
  /\ dataStream[1] = [type |-> "tool_result", toolCallId |-> 1,
                      result |-> "The weather in Lima is sunny"]
  /\ dataStream[2] = ModelOutput
  /\ modelMessages[Len(modelMessages)].parts[1].toolInvocation.result
       = "The weather in Lima is sunny"

\* ------------------------------------------------------------------ C20
\* every resolver called in this pass has settled and no callback is pending
AllSettled ==
  /\ \A i \in DOMAIN promises : promises[i].status # "pending"
  /\ \A i \in DOMAIN InParts :
       CallsFor(i) # {} => completions[i] # NoCompletion

\* C20: when every resolver that is called settles, a pass over a transcript
\* that has a last message returns; and a pass has returned only if every
\* resolver called in it has settled, so that while one is outstanding the
\* pass is still waiting, whatever its siblings have published.
C20_RunsToCompletion ==
  /\ [](pc = "returned" => AllSettled)
  /\ (pc = "idle" /\ Len(messages) > 0) ~> (pc = "returned")

\* the second of two approved parts has settled and its event is published
\* while the resolver of the first is outstanding: the pass is waiting
C20_Witness ==
  /\ pc = "awaiting"
  /\ Len(InParts) = 2
  /\ Approved(1) /\ Approved(2)
  /\ promises[1].status = "pending"
  /\ completions[1] = NoCompletion
  /\ promises[2].status = "fulfilled"
  /\ EventsFor(2) # {}
  /\ processedMessages = NoMessages

\* ------------------------------------------------------------------ C21
\* the parts of the last message as they were when the pass was called
GivenParts == input[Len(input)].parts

\* C21: messages holds at every moment of a pass the value it had when the
\* pass was called; when the pass has returned, every part that took the
\* approve or the deny branch still carries its decision sentinel in
\* messages, and the transcript handed back is another value, whose last
\* message alone differs from the one of messages.
C21_InputNotMutated ==
  /\ messages = input
  /\ (pc = "returned" /\ HasParts) =>
       \A i \in DOMAIN GivenParts :
         Branch(GivenParts[i], executions) \in {"invoke", "noexec", "deny"} =>
           /\ InParts[i] = GivenParts[i]
           /\ InParts[i].toolInvocation.result \in {APPROVAL.YES, APPROVAL.NO}
           /\ processedMessages # messages
           /\ \A k \in 1..(Len(messages) - 1) : processedMessages[k] = messages[k]

\* an approved and a denied part were rewritten in the transcript handed
\* back; messages still holds both sentinels
C21_Witness ==
  /\ pc = "returned"
  /\ Len(messages) = 2
  /\ Len(InParts) = 2
  /\ Approved(1) /\ Returned(1)
  /\ Denied(2)
  /\ OutParts[1].toolInvocation.result = "The weather in Lima is sunny"
  /\ OutParts[2].toolInvocation.result = DeniedMessage
  /\ messages[2].parts[1].toolInvocation.result = APPROVAL.YES
  /\ messages[2].parts[2].toolInvocation.result = APPROVAL.NO
  /\ messages = input

\* ------------------------------------------------------------------ C22
\* the part of the last message that has this toolCallId
PartWithId(id) == CHOOSE i \in DOMAIN InParts : IsTool(i) /\ IdOf(i) = id

\* the position at which the callback of part i completed
SettledAt(i) == CHOOSE k \in DOMAIN settled : settled[k] = i

\* C22: while the pass waits and when it has returned, the resolver of every
\* approved part has been called, the calls having been made in part order;
\* on the stream the events of denied parts precede those of approved
\* parts, the events of denied parts are in part order, and the events of
\* approved parts are in the order in which their resolvers settled.
C22_StartThenSettleOrder ==
  (pc \in {"awaiting", "returned"} /\ HasParts) =>
    /\ \A i \in DOMAIN InParts : Approved(i) => CallsFor(i) # {}
    /\ \A k1, k2 \in DOMAIN invocations :
         k1 < k2 =>
           PartWithId(invocations[k1].toolCallId) < PartWithId(invocations[k2].toolCallId)
    /\ \A e1, e2 \in DOMAIN dataStream :
         e1 < e2 =>
           LET i1 == PartWithId(dataStream[e1].toolCallId)
               i2 == PartWithId(dataStream[e2].toolCallId)
           IN  /\ ~(Approved(i1) /\ Denied(i2))
               /\ (Denied(i1) /\ Denied(i2)) => i1 < i2
               /\ (Approved(i1) /\ Approved(i2)) => SettledAt(i1) < SettledAt(i2)

\* the stream is not in part order: the event of the denied second part
\* precedes the event of the approved first part, whose resolver was called
\* before the denial was written
C22_Witness ==
  /\ pc = "returned"
  /\ Len(InParts) = 2
  /\ Approved(1)
  /\ Denied(2)
  /\ Len(invocations) = 1
  /\ Len(dataStream) = 2
  /\ dataStream[1].toolCallId = IdOf(2)
  /\ dataStream[2].toolCallId = IdOf(1)
  /\ OutParts[1].toolInvocation.toolCallId = IdOf(1)

====
